---- MODULE Spec2Model ----
(***************************************************************************)
(* A model of main.py, the weekly ride-hailing brief: the curation         *)
(* pipeline over article records (fetch_articles) and the sanitizing of    *)
(* the rendered text (the output safeties of main).                        *)
(*                                                                         *)
(* A Python str is a sequence of one-character strings.  A character       *)
(* outside ASCII is written as its code point: "U+27A1" "U+FE0F" is the    *)
(* bullet arrow and its variation selector, "U+2014" the em dash,          *)
(* "U+2013" the en dash, "U+2026" the ellipsis, "U+1F4CC" the pin and      *)
(* "U+6EF4" the CJK character of the DiDi pattern.  The whitespace of the  *)
(* model's alphabet is the space, the tab and the line feed; the line feed *)
(* is its only line boundary.                                              *)
(***************************************************************************)
EXTENDS Integers, Sequences, FiniteSets, TLC

VARIABLES
  pc,        \* the position of the run of the specification at hand
  raw,       \* fetch_news: the provider's records, data.get("articles")
  arts,      \* fetch_articles: arts, the normalized records
  relevant,  \* fetch_articles: is_business_relevant(a), per record of arts
  filtered,  \* fetch_articles: filtered, the relevant and tagged articles
  ordered,   \* merge_dedupe_with_similarity: ordered = non_agg + agg
  kept,      \* merge_dedupe_with_similarity: kept
  idx,       \* the number of articles the running loop has passed
  max_per,   \* limit_per_company: max_per
  counts,    \* limit_per_company: counts
  selected,  \* limit_per_company: selected
  capped,    \* fetch_articles: what it returns, capped[:120]
  brief,     \* main: brief, the rendered text
  before,    \* the text the last output safety was given
  arg        \* the max_per or hard_limit the last output safety was given

vars == << pc, raw, arts, relevant, filtered, ordered, kept, idx, max_per,
           counts, selected, capped, brief, before, arg >>

artVars == << raw, arts, relevant, filtered, ordered, kept, idx, max_per,
              counts, selected, capped >>

outVars == << brief, before, arg >>

-----------------------------------------------------------------------------
(* Bounds of the model. *)

\* the longest list of provider records a run fetches
MaxArticles == 3

\* the largest max_per handed to limit_per_company and
\* enforce_output_company_cap in the function-level specifications
MaxCap == 2

-----------------------------------------------------------------------------
(* str operations *)

Min(S) == CHOOSE x \in S : \A y \in S : x <= y

Max(S) == CHOOSE x \in S : \A y \in S : x >= y

\* str.isspace() of one character, as str.strip() and the regex class \s use it
IsSpace(c) == c \in {" ", "\t", "\n"}

UpperCase ==
  <<"A","B","C","D","E","F","G","H","I","J","K","L","M",
    "N","O","P","Q","R","S","T","U","V","W","X","Y","Z">>

LowerCase ==
  <<"a","b","c","d","e","f","g","h","i","j","k","l","m",
    "n","o","p","q","r","s","t","u","v","w","x","y","z">>

Digits == {"0","1","2","3","4","5","6","7","8","9"}

UpperSet == {UpperCase[n] : n \in DOMAIN UpperCase}

LowerSet == {LowerCase[n] : n \in DOMAIN LowerCase}

IsUpper(c) == c \in UpperSet

IsLower(c) == c \in LowerSet

LowerChar(c) ==
  IF IsUpper(c) THEN LowerCase[CHOOSE n \in DOMAIN UpperCase : UpperCase[n] = c]
  ELSE c

\* str.lower()
Lower(s) == [n \in 1..Len(s) |-> LowerChar(s[n])]

\* the regex class \w, whose edges the anchor \b marks
IsWord(c) == IsUpper(c) \/ IsLower(c) \/ c \in Digits \/ c \in {"_", "U+6EF4"}

\* s[i-1:].startswith(p), i counted from 1
MatchAt(s, i, p) ==
  /\ i >= 1
  /\ i + Len(p) - 1 <= Len(s)
  /\ \A n \in 1..Len(p) : s[i + n - 1] = p[n]

\* str.startswith
StartsWith(s, p) == MatchAt(s, 1, p)

\* the operator `p in s` of two strs
Contains(s, p) == \E i \in 1..(Len(s) - Len(p) + 1) : MatchAt(s, i, p)

\* str.find, counted from 1; 0 when p is not in s
Find(s, p) ==
  IF Contains(s, p)
  THEN Min({i \in 1..(Len(s) - Len(p) + 1) : MatchAt(s, i, p)})
  ELSE 0

\* str.lstrip()
LStrip(s) ==
  LET P == {i \in 1..Len(s) : ~IsSpace(s[i])}
  IN  IF P = {} THEN <<>> ELSE SubSeq(s, Min(P), Len(s))

\* str.rstrip()
RStrip(s) ==
  LET P == {i \in 1..Len(s) : ~IsSpace(s[i])}
  IN  IF P = {} THEN <<>> ELSE SubSeq(s, 1, Max(P))

\* str.strip()
Strip(s) == LStrip(RStrip(s))

\* str.rstrip("/")
RStripSlash(s) ==
  LET P == {i \in 1..Len(s) : s[i] # "/"}
  IN  IF P = {} THEN <<>> ELSE SubSeq(s, 1, Max(P))

\* str.split(sep) of a non-empty separator: the pieces between its
\* occurrences, found from the left
RECURSIVE Split(_, _)
Split(s, sep) ==
  LET i == Find(s, sep)
  IN  IF i = 0 THEN << s >>
      ELSE << SubSeq(s, 1, i - 1) >>
             \o Split(SubSeq(s, i + Len(sep), Len(s)), sep)

\* str.splitlines(): the pieces between line feeds, without a last empty one
SplitLines(t) ==
  LET NL == {i \in 1..Len(t) : t[i] = "\n"}
      n == Cardinality(NL)
      pos(k) == IF k = 0 THEN 0
                ELSE IF k = n + 1 THEN Len(t) + 1
                ELSE CHOOSE i \in NL : Cardinality({j \in NL : j < i}) = k - 1
      cnt == IF pos(n) = Len(t) THEN n ELSE n + 1
  IN  [k \in 1..cnt |-> SubSeq(t, pos(k - 1) + 1, pos(k) - 1)]

\* "\n".join(lines)
RECURSIVE JoinLines(_)
JoinLines(lines) ==
  IF lines = <<>> THEN <<>>
  ELSE IF Len(lines) = 1 THEN lines[1]
  ELSE lines[1] \o <<"\n">> \o JoinLines(Tail(lines))

\* the concatenation of a list of strs
RECURSIVE Concat(_)
Concat(ss) == IF ss = <<>> THEN <<>> ELSE Head(ss) \o Concat(Tail(ss))

\* the operator `x in s` of a list s
InSeq(s, x) == \E n \in DOMAIN s : s[n] = x

\* the set of the lists of at most n elements of S
SeqsUpTo(S, n) == UNION {[1..m -> S] : m \in 0..n}

-----------------------------------------------------------------------------
(* The tables of main.py *)

Uber == <<"U","b","e","r">>

DiDi == <<"D","i","D","i">>

Bolt == <<"B","o","l","t">>

InDrive == <<"i","n","D","r","i","v","e">>

Cabify == <<"C","a","b","i","f","y">>

Yassir == <<"Y","a","s","s","i","r">>

Heetch == <<"H","e","e","t","c","h">>

Grab == <<"G","r","a","b">>

Gojek == <<"G","o","j","e","k">>

\* COMPANIES = list(COMPANY_PATTERNS.keys()), in the order of the dict
COMPANIES == << Uber, DiDi, Bolt, InDrive, Cabify, Yassir, Heetch, Grab, Gojek >>

CompanySet == {COMPANIES[n] : n \in DOMAIN COMPANIES}

\* One regular expression of COMPANY_PATTERNS: the literal lit, between two
\* \b anchors when wb
Pat(lit, wb) == [lit |-> lit, wb |-> wb]

COMPANY_PATTERNS ==
  [c \in CompanySet |->
  CASE c = Uber ->
         << Pat(<<"u","b","e","r">>, TRUE),
            Pat(<<"u","b","e","r"," ","t","e","c","h","n","o","l","o","g","i","e","s">>, TRUE) >>
    [] c = DiDi ->
         << Pat(<<"d","i","d","i">>, TRUE),
            Pat(<<"d","i","d","i"," ","c","h","u","x","i","n","g">>, TRUE),
            Pat(<<"U+6EF4","U+6EF4">>, FALSE),
            Pat(<<"9","9"," ","a","p","p">>, TRUE),
            Pat(<<"9","9">>, TRUE) >>
    [] c = Bolt ->
         << Pat(<<"b","o","l","t">>, TRUE),
            Pat(<<"t","a","x","i","f","y">>, TRUE) >>
    [] c = InDrive ->
         << Pat(<<"i","n","d","r","i","v","e">>, TRUE),
            Pat(<<"i","n","d","r","i","v","e","r">>, TRUE) >>
    [] c = Cabify -> << Pat(<<"c","a","b","i","f","y">>, TRUE) >>
    [] c = Yassir -> << Pat(<<"y","a","s","s","i","r">>, TRUE) >>
    [] c = Heetch -> << Pat(<<"h","e","e","t","c","h">>, TRUE) >>
    [] c = Grab -> << Pat(<<"g","r","a","b">>, TRUE) >>
    [] c = Gojek ->
         << Pat(<<"g","o","j","e","k">>, TRUE),
            Pat(<<"g","o","-","j","e","k">>, TRUE) >> ]

AGGREGATOR_DOMAINS ==
  { <<"b","i","z","t","o","c",".","c","o","m">>,
    <<"n","e","w","s",".","g","o","o","g","l","e",".","c","o","m">>,
    <<"n","e","w","s",".","y","a","h","o","o",".","c","o","m">>,
    <<"f","i","n","a","n","c","e",".","y","a","h","o","o",".","c","o","m">>,
    <<"f","l","i","p","b","o","a","r","d",".","c","o","m">> }

INCIDENT_BLACKLIST ==
  << <<"a","s","s","a","u","l","t">>,
     <<"p","u","n","c","h","e","d">>,
     <<"p","u","n","c","h">>,
     <<"s","t","a","b">>,
     <<"s","t","a","b","b","i","n","g">>,
     <<"m","u","r","d","e","r">>,
     <<"k","i","l","l","e","d">>,
     <<"k","i","l","l">>,
     <<"r","a","p","e">>,
     <<"s","e","x","u","a","l"," ","a","s","s","a","u","l","t">>,
     <<"m","o","l","e","s","t">>,
     <<"r","o","b","b","e","r","y">>,
     <<"b","e","a","t","e","n">>,
     <<"b","e","a","t","i","n","g">>,
     <<"a","c","c","i","d","e","n","t">>,
     <<"c","r","a","s","h">>,
     <<"c","o","l","l","i","s","i","o","n">>,
     <<"i","n","j","u","r","e","d">>,
     <<"i","n","j","u","r","y">>,
     <<"f","a","t","a","l">>,
     <<"d","e","a","t","h">>,
     <<"d","e","a","d">>,
     <<"e","x","p","l","o","s","i","o","n">>,
     <<"f","i","r","e">>,
     <<"s","h","o","o","t","i","n","g">>,
     <<"h","o","m","i","c","i","d","e">> >>

STUDY_REPORT_TERMS ==
  << <<"s","t","u","d","y">>,
     <<"s","t","u","d","i","e","s">>,
     <<"r","e","s","e","a","r","c","h">>,
     <<"r","e","p","o","r","t">>,
     <<"w","h","i","t","e","p","a","p","e","r">>,
     <<"s","u","r","v","e","y">>,
     <<"a","n","a","l","y","s","i","s">>,
     <<"f","i","n","d","s">>,
     <<"r","e","v","e","a","l","s">>,
     <<"i","n","d","i","c","a","t","e","s">> >>

COMMERCIAL_WHITELIST ==
  << <<"l","a","u","n","c","h">>,
     <<"e","x","p","a","n","s","i","o","n">>,
     <<"e","x","p","a","n","d">>,
     <<"o","p","e","n","s">>,
     <<"o","p","e","n","i","n","g">>,
     <<"e","n","t","e","r","s">>,
     <<"e","n","t","r","y">>,
     <<"r","o","l","l","o","u","t">>,
     <<"c","i","t","y">>,
     <<"c","i","t","i","e","s">>,
     <<"c","o","u","n","t","r","y">>,
     <<"c","o","u","n","t","r","i","e","s">>,
     <<"r","e","g","i","o","n">>,
     <<"m","a","r","k","e","t">>,
     <<"m","e","r","g","e","r">>,
     <<"a","c","q","u","i","s","i","t","i","o","n">>,
     <<"a","c","q","u","i","r","e","s">>,
     <<"m","&","a">>,
     <<"d","e","a","l">>,
     <<"c","o","n","t","r","a","c","t">>,
     <<"f","u","n","d","i","n","g">>,
     <<"r","a","i","s","e","s">>,
     <<"r","a","i","s","e">>,
     <<"i","n","v","e","s","t","m","e","n","t">>,
     <<"i","n","v","e","s","t","s">>,
     <<"r","o","u","n","d">>,
     <<"p","a","r","t","n","e","r","s","h","i","p">>,
     <<"p","a","r","t","n","e","r","s">>,
     <<"a","l","l","i","a","n","c","e">>,
     <<"c","o","l","l","a","b","o","r","a","t","i","o","n">>,
     <<"i","p","o">>,
     <<"l","i","s","t","i","n","g">>,
     <<"v","a","l","u","a","t","i","o","n">>,
     <<"r","e","v","e","n","u","e">>,
     <<"p","r","o","f","i","t">>,
     <<"e","a","r","n","i","n","g","s">>,
     <<"p","r","i","c","i","n","g">>,
     <<"f","a","r","e">>,
     <<"r","e","g","u","l","a","t","i","o","n">>,
     <<"l","i","c","e","n","s","e">>,
     <<"l","i","c","e","n","c","e">>,
     <<"p","e","r","m","i","t">>,
     <<"a","p","p","r","o","v","a","l">>,
     <<"p","r","o","d","u","c","t">>,
     <<"f","e","a","t","u","r","e">>,
     <<"s","a","f","e","t","y"," ","f","e","a","t","u","r","e">>,
     <<"e","v">>,
     <<"e","l","e","c","t","r","i","c">>,
     <<"a","u","t","o","n","o","m","o","u","s">>,
     <<"r","o","b","o","t","a","x","i">> >>

-----------------------------------------------------------------------------
(* Classify and filter.  An article is a record of the strs title,         *)
(* description and url, and of the list companies once it is tagged; the   *)
(* source and published_at of a record are carried along unread and are    *)
(* left out.                                                               *)

\* text_of(a)
text_of(a) == Lower(a.title \o <<" ">> \o a.description \o <<" ">> \o a.url)

\* has_any(text, keywords)
has_any(text, keywords) ==
  \E n \in DOMAIN keywords : Contains(text, keywords[n])

\* re.search(pat, txt, flags=re.I) is not None: the literal matches whatever
\* the case of the letters
PatSearch(pat, txt) ==
  LET n == Len(pat.lit)
  IN  \E i \in 1..(Len(txt) - n + 1) :
        /\ \A k \in 1..n : LowerChar(txt[i + k - 1]) = LowerChar(pat.lit[k])
        /\ pat.wb => /\ (i = 1 \/ ~IsWord(txt[i - 1]))
                     /\ (i + n - 1 = Len(txt) \/ ~IsWord(txt[i + n]))

\* tag_companies(a)
tag_companies(a) ==
  LET txt == text_of(a)
      Tagged(c) == \E n \in DOMAIN COMPANY_PATTERNS[c] :
                     PatSearch(COMPANY_PATTERNS[c][n], txt)
  IN  SelectSeq(COMPANIES, Tagged)

\* is_business_relevant without the rescue by the commercial whitelist
is_business_relevant_no_whitelist(a) ==
  LET t == text_of(a)
  IN  IF has_any(t, INCIDENT_BLACKLIST) THEN FALSE
      ELSE IF has_any(t, STUDY_REPORT_TERMS) THEN FALSE
      ELSE TRUE

\* is_business_relevant(a)
is_business_relevant(a) ==
  LET t == text_of(a)
  IN  IF has_any(t, INCIDENT_BLACKLIST) THEN FALSE
      ELSE IF has_any(t, STUDY_REPORT_TERMS) /\ ~has_any(t, COMMERCIAL_WHITELIST)
           THEN FALSE
      ELSE TRUE

\* domain_of(url)
domain_of(url) ==
  LET parts == Split(url, <<"/">>)
  IN  IF Len(parts) >= 3 THEN Lower(parts[3]) ELSE <<>>

\* (a.get("url") or "").split("?")[0].rstrip("/")
CanonUrl(url) == RStripSlash(Split(url, <<"?">>)[1])

\* the elements of s at the indices K, in order
Pick(s, K) ==
  [k \in 1..Cardinality(K) |->
     s[CHOOSE i \in K : Cardinality({j \in K : j < i}) = k - 1]]

\* norm_title(s)
norm_title(s) ==
  LET low == Lower(s)
      sub == [n \in 1..Len(low) |->
                IF IsLower(low[n]) \/ low[n] \in Digits \/ IsSpace(low[n])
                THEN low[n] ELSE " "]
      first == {n \in 1..Len(sub) :
                  ~IsSpace(sub[n]) \/ n = 1 \/ ~IsSpace(sub[n - 1])}
      one == [n \in 1..Len(sub) |-> IF IsSpace(sub[n]) THEN " " ELSE sub[n]]
  IN  Strip(Pick(one, first))

\* The length of the common run of a from i and b from j, inside a[..ahi]
\* and b[..bhi]
RECURSIVE RunLen(_, _, _, _, _, _)
RunLen(a, b, i, j, ahi, bhi) ==
  IF i > ahi \/ j > bhi THEN 0
  ELSE IF a[i] # b[j] THEN 0
  ELSE 1 + RunLen(a, b, i + 1, j + 1, ahi, bhi)

\* difflib.SequenceMatcher.find_longest_match on a[alo..ahi] and b[blo..bhi]
\* (both ends included, counted from 1) with no junk: the longest common
\* block, of those the one starting earliest in a, of those the one starting
\* earliest in b.  difflib's automatic junk heuristic sets in only when b has
\* 200 characters or more; the titles of the model are shorter.
FindLongestMatch(a, b, alo, ahi, blo, bhi) ==
  LET run == [i \in alo..ahi, j \in blo..bhi |-> RunLen(a, b, i, j, ahi, bhi)]
      size == Max({run[i, j] : i \in alo..ahi, j \in blo..bhi})
      besti == Min({i \in alo..ahi : \E j \in blo..bhi : run[i, j] = size})
      bestj == Min({j \in blo..bhi : run[besti, j] = size})
  IN  IF size = 0 THEN << alo, blo, 0 >> ELSE << besti, bestj, size >>

\* sum(triple[-1] for triple in get_matching_blocks()), restricted to the
\* blocks inside a[alo..ahi] and b[blo..bhi]
RECURSIVE MatchingSize(_, _, _, _, _, _)
MatchingSize(a, b, alo, ahi, blo, bhi) ==
  IF alo > ahi \/ blo > bhi THEN 0
  ELSE LET m == FindLongestMatch(a, b, alo, ahi, blo, bhi)
       IN  IF m[3] = 0 THEN 0
           ELSE m[3] + MatchingSize(a, b, alo, m[1] - 1, blo, m[2] - 1)
                     + MatchingSize(a, b, m[1] + m[3], ahi, m[2] + m[3], bhi)

\* similar(a, b, threshold), the threshold in hundredths:
\* SequenceMatcher(None, a, b).ratio() is 2.0 * matches / length, and 1.0
\* when both are empty.  On strs this short the float comparison agrees with
\* the comparison of the fractions.
similar(a, b, threshold) ==
  LET length == Len(a) + Len(b)
      matches == MatchingSize(a, b, 1, Len(a), 1, Len(b))
  IN  IF length = 0 THEN TRUE ELSE 200 * matches >= threshold * length

-----------------------------------------------------------------------------
(* The curation pipeline: fetch_news, fetch_articles,                      *)
(* merge_dedupe_with_similarity, limit_per_company                         *)

\* The provider's records the runs of the model draw from
RawPool ==
  { [title |-> <<"U","b","e","r"," ","b","i","d">>,
     description |-> <<>>,
     url |-> <<"h","t","t","p",":","/","/","n",".","c","o","m","/","a","/">>],
    [title |-> <<"U","b","e","r"," ","b","u","s">>,
     description |-> <<>>,
     url |-> <<"h","t","t","p",":","/","/","n",".","c","o","m","/","b">>],
    [title |-> <<"U","b","e","r"," ","b","u","s">>,
     description |-> <<>>,
     url |-> <<"h","t","t","p",":","/","/","b","i","z","t","o","c",".","c","o","m","/","c">>],
    [title |-> <<"B","o","l","t"," ","f","a","r","e">>,
     description |-> <<>>,
     url |-> <<"h","t","t","p",":","/","/","n",".","c","o","m","/","a","?","x">>],
    [title |-> <<"U","b","e","r"," ","B","o","l","t"," ">>,
     description |-> <<" ","E","V"," ","s","t","u","d","y">>,
     url |-> <<"h","t","t","p",":","/","/","m",".","o","r","g","/","d">>],
    [title |-> <<" ","T","a","x","i"," ","s","t","u","d","y">>,
     description |-> <<>>,
     url |-> <<"h","t","t","p",":","/","/","m",".","o","r","g","/","e">>],
    [title |-> <<"U","b","e","r"," ","C","R","A","S","H"," ","d","e","a","l">>,
     description |-> <<>>,
     url |-> <<"h","t","t","p",":","/","/","m",".","o","r","g","/","f">>],
    [title |-> <<"T","a","x","i"," ","f","a","r","e">>,
     description |-> <<>>,
     url |-> <<"h","t","t","p",":","/","/","m",".","o","r","g","/","g">>] }

\* fetch_news, one record of data.get("articles"): the list of the one
\* normalized record, or the empty list when its url or title is empty
NormalizeRecord(a) ==
  LET url_ == CanonUrl(a.url)
      title == Strip(a.title)
  IN  IF url_ = <<>> \/ title = <<>> THEN <<>>
      ELSE << [title |-> title,
               description |-> Strip(a.description),
               url |-> url_] >>

\* fetch_news: out, from the records of the provider
fetch_news(records) ==
  Concat([n \in 1..Len(records) |-> NormalizeRecord(records[n])])

\* fetch_articles: a["companies"] = tag_companies(a)
WithCompanies(a) ==
  [title |-> a.title, description |-> a.description, url |-> a.url,
   companies |-> tag_companies(a)]

\* fetch_articles: the loop that fills filtered, rel[n] being
\* is_business_relevant(as[n])
FilterAndTag(as, rel) ==
  Concat([n \in 1..Len(as) |->
            IF rel[n] THEN << WithCompanies(as[n]) >> ELSE <<>>])

IsAggregator(a) == domain_of(a.url) \in AGGREGATOR_DOMAINS

NotAggregator(a) == ~IsAggregator(a)

\* merge_dedupe_with_similarity: ordered = non_agg + agg
OrderedOf(articles) ==
  SelectSeq(articles, NotAggregator) \o SelectSeq(articles, IsAggregator)

\* the test of the inner loop without its cross-domain branch
IsDupSameDomainOnly(a, b) ==
  LET url == CanonUrl(a.url)
      tnorm == norm_title(Strip(a.title))
      burl == CanonUrl(b.url)
      btnorm == norm_title(Strip(b.title))
  IN  domain_of(url) = domain_of(burl) /\ similar(tnorm, btnorm, 75)

\* merge_dedupe_with_similarity: the test of the candidate a against the
\* kept article b, the body of the inner loop
IsDup(a, b) ==
  LET url == CanonUrl(a.url)
      tnorm == norm_title(Strip(a.title))
      burl == CanonUrl(b.url)
      btnorm == norm_title(Strip(b.title))
  IN  \/ domain_of(url) = domain_of(burl) /\ similar(tnorm, btnorm, 75)
      \/ similar(tnorm, btnorm, 85)

\* the tests of the loop body with > for >=
AdmitsOffByOne(tags, cnt, cap) ==
  /\ tags # <<>>
  /\ ~(\E n \in DOMAIN tags :
         (IF tags[n] \in DOMAIN cnt THEN cnt[tags[n]] ELSE 0) > cap)

\* limit_per_company: the article with these tags passes both tests of the
\* loop body and is selected
Admits(tags, cnt, cap) ==
  /\ tags # <<>>
  /\ ~(\E n \in DOMAIN tags :
         (IF tags[n] \in DOMAIN cnt THEN cnt[tags[n]] ELSE 0) >= cap)

\* the counters when only the first tag is counted
CountedFirstOnly(tags, cnt) ==
  [c \in DOMAIN cnt |-> IF tags # <<>> /\ tags[1] = c THEN cnt[c] + 1 ELSE cnt[c]]

\* limit_per_company: the counters after `for c in tags: counts[c] += 1`
Counted(tags, cnt) ==
  [c \in DOMAIN cnt |->
     cnt[c] + Cardinality({n \in DOMAIN tags : tags[n] = c})]

\* fetch_articles: the size of the list handed on, capped[:120]
PROTECT_TOKENS == 120

\* s[:n]
Take(s, n) == SubSeq(s, 1, IF n < Len(s) THEN n ELSE Len(s))

InitOut ==
  /\ brief = <<>>
  /\ before = <<>>
  /\ arg = 0

InitArt ==
  /\ arts = <<>>
  /\ relevant = <<>>
  /\ filtered = <<>>
  /\ ordered = <<>>
  /\ kept = <<>>
  /\ idx = 0
  /\ max_per = 0
  /\ counts = [c \in CompanySet |-> 0]
  /\ selected = <<>>
  /\ capped = <<>>

Init ==
  /\ pc = "fetch"
  /\ raw \in SeqsUpTo(RawPool, MaxArticles)
  /\ InitArt
  /\ InitOut

\* fetch_articles: arts += fetch_news(from_iso, to_iso)
Fetch ==
  /\ pc = "fetch"
  /\ arts' = fetch_news(raw)
  /\ pc' = "filter"
  /\ UNCHANGED << raw, relevant, filtered, ordered, kept, idx, max_per,
                  counts, selected, capped, outVars >>

\* fetch_articles: filter business relevance and tag companies
Filter ==
  /\ pc = "filter"
  /\ relevant' = [n \in 1..Len(arts) |-> is_business_relevant(arts[n])]
  /\ filtered' = FilterAndTag(arts, relevant')
  /\ pc' = "merge"
  /\ UNCHANGED << raw, arts, ordered, kept, idx, max_per, counts, selected,
                  capped, outVars >>

\* merge_dedupe_with_similarity(filtered), up to its loop
MergeStart ==
  /\ pc = "merge"
  /\ ordered' = OrderedOf(filtered)
  /\ kept' = <<>>
  /\ idx' = 0
  /\ pc' = "scan"
  /\ UNCHANGED << raw, arts, relevant, filtered, max_per, counts, selected,
                  capped, outVars >>

\* merge_dedupe_with_similarity: one pass of `for a in ordered`
MergeStep ==
  /\ pc = "scan"
  /\ idx < Len(ordered)
  /\ LET a == ordered[idx + 1]
         dup == \E n \in DOMAIN kept : IsDup(a, kept[n])
     IN  kept' = IF dup THEN kept ELSE Append(kept, a)
  /\ idx' = idx + 1
  /\ UNCHANGED << pc, raw, arts, relevant, filtered, ordered, max_per,
                  counts, selected, capped, outVars >>

\* merge_dedupe_with_similarity returns kept, and limit_per_company(filtered,
\* max_per) starts; fetch_articles passes 7, the runs of the model pass the
\* caps that lists of MaxArticles articles can reach
MergeReturn ==
  /\ pc = "scan"
  /\ idx = Len(ordered)
  /\ filtered' = kept
  /\ \E cap \in 1..MaxCap : max_per' = cap
  /\ counts' = [c \in CompanySet |-> 0]
  /\ selected' = <<>>
  /\ idx' = 0
  /\ pc' = "cap"
  /\ UNCHANGED << raw, arts, relevant, ordered, kept, capped, outVars >>

\* limit_per_company: one pass of `for a in articles`
CapStep ==
  /\ pc = "cap"
  /\ idx < Len(filtered)
  /\ LET a == filtered[idx + 1]
         tags == a.companies
     IN  IF Admits(tags, counts, max_per)
         THEN /\ counts' = Counted(tags, counts)
              /\ selected' = Append(selected, a)
         ELSE UNCHANGED << counts, selected >>
  /\ idx' = idx + 1
  /\ UNCHANGED << pc, raw, arts, relevant, filtered, ordered, kept, max_per,
                  capped, outVars >>

\* limit_per_company returns selected, and fetch_articles returns capped[:120]
CapReturn ==
  /\ pc = "cap"
  /\ idx = Len(filtered)
  /\ capped' = Take(selected, PROTECT_TOKENS)
  /\ pc' = "done"
  /\ UNCHANGED << raw, arts, relevant, filtered, ordered, kept, idx, max_per,
                  counts, selected, outVars >>

Next ==
  \/ Fetch
  \/ Filter
  \/ MergeStart
  \/ MergeStep
  \/ MergeReturn
  \/ CapStep
  \/ CapReturn

Spec == Init /\ [][Next]_vars

-----------------------------------------------------------------------------
(* Output post-process: the safeties main applies to the rendered text *)

\* the bullet glyph
Arrow == <<"U+27A1","U+FE0F">>

\* "- " and the bullet glyph, the prefix fix_bullet_prefixes replaces
DashArrow == <<"-"," ","U+27A1","U+FE0F">>

\* the bullet glyph and a space, the prefix truncate_to_one_message looks for
ArrowSpace == <<"U+27A1","U+FE0F"," ">>

\* the literal head of ANCHOR_RE and of the pattern of shrink_line
AnchorOpen == <<"<","a"," ","h","r","e","f","=","\"">>

AnchorClose == <<"<","/","a",">">>

\* the separator before the source and before the company label
DashSep == <<" ","U+2014"," ">>

TopHeader == <<"<","b",">","U+1F4CC"," ","T","o","p">>

TrendHeader == <<"<","b",">","U+1F4CC"," ","T","r","e","n","d">>

Separator == <<"U+2013","U+2013","U+2013","U+2013">>

\* fix_bullet_prefixes: what the loop makes of one line
FixLine(ln) ==
  LET s == LStrip(ln)
  IN  IF StartsWith(s, DashArrow)
      THEN ArrowSpace \o LStrip(SubSeq(s, Len(DashArrow) + 1, Len(s)))
      ELSE ln

\* fix_bullet_prefixes(text)
fix_bullet_prefixes(text) ==
  LET lines == SplitLines(text)
  IN  JoinLines([n \in 1..Len(lines) |-> FixLine(lines[n])])

\* The index of the quote that ends [^"]+ when `<a href="[^"]+">` matches s
\* from i, the letters of the head compared as given (ic false) or whatever
\* their case (ic true, re.IGNORECASE); 0 when it does not match from i
AnchorEnd(s, i, ic) ==
  LET n == Len(AnchorOpen)
      head == /\ i + n - 1 <= Len(s)
              /\ \A k \in 1..n :
                   IF ic THEN LowerChar(s[i + k - 1]) = LowerChar(AnchorOpen[k])
                   ELSE s[i + k - 1] = AnchorOpen[k]
      Q == {q \in (i + n)..Len(s) : s[q] = "\""}
  IN  IF head /\ Q # {} /\ Min(Q) > i + n /\ Min(Q) < Len(s)
         /\ s[Min(Q) + 1] = ">"
      THEN Min(Q) ELSE 0

\* ANCHOR_RE.search(s): the list of m.group(1), empty when there is no match
AnchorSearch(s) ==
  LET M == {i \in 1..Len(s) : AnchorEnd(s, i, TRUE) # 0}
  IN  IF M = {} THEN <<>>
      ELSE << SubSeq(s, Min(M) + Len(AnchorOpen),
                     AnchorEnd(s, Min(M), TRUE) - 1) >>

\* BulletUrl with the anchor searched without re.IGNORECASE
BulletUrlCaseSensitive(ln) ==
  LET s == Strip(ln)
      M == {i \in 1..Len(s) : AnchorEnd(s, i, FALSE) # 0}
  IN  IF StartsWith(s, Arrow) /\ M # {}
      THEN << SubSeq(s, Min(M) + Len(AnchorOpen),
                     AnchorEnd(s, Min(M), FALSE) - 1) >>
      ELSE <<>>

\* dedupe_output_bullets: the link target of a line that is a bullet with an
\* anchor, as a list; empty for every other line
BulletUrl(ln) ==
  LET s == Strip(ln)
  IN  IF StartsWith(s, Arrow) THEN AnchorSearch(s) ELSE <<>>

\* dedupe_output_bullets: the loop from line n on, with out and seen_urls
RECURSIVE DedupeLoop(_, _, _, _)
DedupeLoop(lines, n, out, seen_urls) ==
  IF n > Len(lines) THEN out
  ELSE LET m == BulletUrl(lines[n])
       IN  IF m # <<>> /\ m[1] \in seen_urls
           THEN DedupeLoop(lines, n + 1, out, seen_urls)
           ELSE DedupeLoop(lines, n + 1, Append(out, lines[n]),
                           IF m # <<>> THEN seen_urls \cup {m[1]}
                           ELSE seen_urls)

\* dedupe_output_bullets(text)
dedupe_output_bullets(text) ==
  JoinLines(DedupeLoop(SplitLines(text), 1, <<>>, {}))

\* enforce_output_company_cap: the index of the Top header, 0 when there is
\* none (StopIteration)
TopIdx(lines) ==
  LET T == {i \in 1..Len(lines) : StartsWith(Strip(lines[i]), TopHeader)}
  IN  IF T = {} THEN 0 ELSE Min(T)

\* enforce_output_company_cap: the index of the line that ends the Top
\* block, len(lines) (here one past the last line) when nothing ends it
EndIdx(lines, top_idx) ==
  LET E == {i \in (top_idx + 1)..Len(lines) :
              \/ Strip(lines[i]) = Separator
              \/ StartsWith(Strip(lines[i]), TrendHeader)}
  IN  IF E = {} THEN Len(lines) + 1 ELSE Min(E)

\* enforce_output_company_cap: comps of a label field
CompsOf(comp_field) ==
  LET pieces == Split(comp_field, <<"/">>)
      NonEmpty(c) == c # <<>>
  IN  SelectSeq([n \in 1..Len(pieces) |-> Strip(pieces[n])], NonEmpty)

\* the bullet is malformed for enforce_output_company_cap: len(parts) < 3
Malformed(parts) == Len(parts) < 3

\* NamesKnown with any(comps) for any(c in COMPANIES for c in comps)
NamesAnything(comps) == comps # <<>>

\* enforce_output_company_cap: any(c in COMPANIES for c in comps)
NamesKnown(comps) == \E n \in DOMAIN comps : comps[n] \in CompanySet

\* OverCap with > cap for >= cap
OverCapOffByOne(comps, company_counts, cap) ==
  \E n \in DOMAIN comps :
    comps[n] \in CompanySet /\ company_counts[comps[n]] > cap

\* enforce_output_company_cap: over
OverCap(comps, company_counts, cap) ==
  \E n \in DOMAIN comps :
    comps[n] \in CompanySet /\ company_counts[comps[n]] >= cap

\* enforce_output_company_cap: the loop over the Top block from line i on
RECURSIVE CapLoop(_, _, _, _, _, _)
CapLoop(lines, i, end_idx, company_counts, new_section, cap) ==
  IF i >= end_idx THEN new_section
  ELSE LET ln == lines[i]
           s == Strip(ln)
           parts == Split(s, DashSep)
           comps == CompsOf(parts[Len(parts)])
           keep == CapLoop(lines, i + 1, end_idx, company_counts,
                           Append(new_section, ln), cap)
           drop == CapLoop(lines, i + 1, end_idx, company_counts,
                           new_section, cap)
       IN  IF ~StartsWith(s, Arrow) THEN keep
           ELSE IF Malformed(parts) THEN keep
           ELSE IF ~NamesKnown(comps) THEN drop
           ELSE IF OverCap(comps, company_counts, cap) THEN drop
           ELSE CapLoop(lines, i + 1, end_idx, Counted(comps, company_counts),
                        Append(new_section, ln), cap)

\* enforce_output_company_cap(text, max_per)
enforce_output_company_cap(text, cap) ==
  LET lines == SplitLines(text)
      top_idx == TopIdx(lines)
      end_idx == EndIdx(lines, top_idx)
      new_section == CapLoop(lines, top_idx + 1, end_idx,
                             [c \in CompanySet |-> 0], <<>>, cap)
  IN  IF top_idx = 0 THEN text
      ELSE JoinLines(SubSeq(lines, 1, top_idx) \o new_section
                       \o SubSeq(lines, end_idx, Len(lines)))

\* FilterDrops without the incident filter
FilterDropsStudyOnly(ln) ==
  LET s == Lower(Strip(ln))
  IN  /\ StartsWith(s, Arrow)
      /\ has_any(s, STUDY_REPORT_TERMS) /\ ~has_any(s, COMMERCIAL_WHITELIST)

\* filter_out_incident_and_study_bullets: the line is dropped
FilterDrops(ln) ==
  LET s == Lower(Strip(ln))
  IN  /\ StartsWith(s, Arrow)
      /\ \/ has_any(s, INCIDENT_BLACKLIST)
         \/ has_any(s, STUDY_REPORT_TERMS) /\ ~has_any(s, COMMERCIAL_WHITELIST)

\* filter_out_incident_and_study_bullets(text)
filter_out_incident_and_study_bullets(text) ==
  LET Stays(ln) == ~FilterDrops(ln)
  IN  JoinLines(SelectSeq(SplitLines(text), Stays))

-----------------------------------------------------------------------------
(* Fit to one Telegram message *)

\* truncate_to_one_message: the default of hard_limit
HARD_LIMIT == 4096

\* truncate_to_one_message: the first max_len
SHRINK_FROM == 140

\* truncate_to_one_message: the least max_len the first loop runs with
SHRINK_TO == 80

\* truncate_to_one_message: max_len -= 10
SHRINK_STEP == 10

Ellipsis == <<"U+2026">>

\* shrink_line: `(\s+—\s+.+)$` matches all of t
TailMatches(t) ==
  LET P == {i \in 1..Len(t) : ~IsSpace(t[i])}
      d == IF P = {} THEN 0 ELSE Min(P)
  IN  /\ d > 1
      /\ t[d] = "U+2014"
      /\ d + 2 <= Len(t)
      /\ IsSpace(t[d + 1])

\* shrink_line: the match of the pattern that starts at i, as the list
\* << pre, head, post, tail >>; empty when the pattern matches nowhere from i.
\* .+? takes the shortest head after which `</a>` and the tail follow.
ShrinkMatchAt(line, i) ==
  LET q == AnchorEnd(line, i, FALSE)
      h == q + 2
      E == {e \in h..Len(line) :
              /\ MatchAt(line, e + 1, AnchorClose)
              /\ TailMatches(SubSeq(line, e + 1 + Len(AnchorClose), Len(line)))}
  IN  IF q = 0 \/ E = {} THEN <<>>
      ELSE << SubSeq(line, i, q + 1),
              SubSeq(line, h, Min(E)),
              AnchorClose,
              SubSeq(line, Min(E) + 1 + Len(AnchorClose), Len(line)) >>

\* shrink_line: m.groups() of re.search, empty when m is None
ShrinkSearch(line) ==
  LET M == {i \in 1..Len(line) : ShrinkMatchAt(line, i) # <<>>}
  IN  IF M = {} THEN <<>> ELSE ShrinkMatchAt(line, Min(M))

\* shrink_line(line, max_head_len)
shrink_line(line, max_head_len) ==
  LET m == ShrinkSearch(line)
  IN  IF m = <<>> THEN line
      ELSE IF Len(m[2]) <= max_head_len THEN line
      ELSE m[1] \o RStrip(SubSeq(m[2], 1, max_head_len)) \o Ellipsis
             \o m[3] \o m[4]

\* len("\n".join(lines))
JoinedLen(lines) ==
  IF lines = <<>> THEN 0
  ELSE Len(Concat(lines)) + Len(lines) - 1

\* truncate_to_one_message: bullet_idx, the indices in rising order
BulletIdx(lines) ==
  LET B == {i \in 1..Len(lines) : StartsWith(Strip(lines[i]), ArrowSpace)}
  IN  Pick([i \in 1..Len(lines) |-> i], B)

\* truncate_to_one_message: the first loop, from max_len on
RECURSIVE ShrinkLoop(_, _, _, _)
ShrinkLoop(lines, bullet_idx, max_len, hard_limit) ==
  IF JoinedLen(lines) > hard_limit /\ max_len >= SHRINK_TO
  THEN ShrinkLoop([i \in 1..Len(lines) |->
                     IF InSeq(bullet_idx, i) THEN shrink_line(lines[i], max_len)
                     ELSE lines[i]],
                  bullet_idx, max_len - SHRINK_STEP, hard_limit)
  ELSE lines

\* list.pop(i), i counted from 1: the list without its element i
PopAt(lines, i) == SubSeq(lines, 1, i - 1) \o SubSeq(lines, i + 1, Len(lines))

\* truncate_to_one_message: the second loop
RECURSIVE DropLoop(_, _, _)
DropLoop(lines, bullet_idx, hard_limit) ==
  IF JoinedLen(lines) > hard_limit /\ bullet_idx # <<>>
  THEN DropLoop(PopAt(lines, bullet_idx[Len(bullet_idx)]),
                SubSeq(bullet_idx, 1, Len(bullet_idx) - 1), hard_limit)
  ELSE lines

\* truncate_to_one_message(text, hard_limit)
truncate_to_one_message(text, hard_limit) ==
  IF Len(text) <= hard_limit THEN text
  ELSE LET lines == SplitLines(text)
           bullet_idx == BulletIdx(lines)
       IN  JoinLines(DropLoop(ShrinkLoop(lines, bullet_idx, SHRINK_FROM,
                                         hard_limit),
                              bullet_idx, hard_limit))

-----------------------------------------------------------------------------
(* The output safeties one by one, each applied to a rendered text *)

\* the most lines of a rendered text
MaxLines == 3

\* the values of hard_limit the runs hand to truncate_to_one_message: one
\* below the length of every line of the texts, one that the long bullet
\* fits once its headline is shrunk
TinyLimit == 10

LineLimit == 118

HardLimits == {TinyLimit, LineLimit}

\* The lines the rendered texts are made of: the Top header; a bullet as the
\* prompt asks for it; a bullet of two companies with the link of the former
\* and a headline above SHRINK_TO characters; a bullet with no source field;
\* a bullet labelled with an unknown company; the separator; a bullet with
\* no label at all; a line that is no bullet and has the link of the first
LinePool ==
  { <<"S","e","e"," ","<","a"," ","h","r","e","f","=","\"","u","\"",">","h","<","/","a",">">>,
    <<"<","b",">","U+1F4CC"," ","T","o","p"," ","1","5","<","/","b",">">>,
    <<"U+27A1","U+FE0F"," ","<","a"," ","h","r","e","f","=","\"","u","\"",
      ">","h","<","/","a",">"," ","U+2014"," ","S"," ","U+2014"," ","U","b",
      "e","r">>,
    <<"U+27A1","U+FE0F"," ","<","A"," ","H","R","E","F","=","\"","u","\"",
      ">","x","x","x","x","x","x","x","x","x","x","x","x","x","x","x","x",
      "x","x","x","x","x","x","x","x","x","x","x","x","x","x","x","x","x",
      "x","x","x","x","x","x","x","x","x","x","x","x","x","x","x","x","x",
      "x","x","x","x","x","x","x","x","x","x","x","x","x","x","x","x","x",
      "x","x","x","x","x","x","x","x","x","x","x","x"," ","y","y","y","y",
      "y","<","/","a",">"," ","U+2014"," ","S"," ","U+2014"," ","U","b","e",
      "r","/","B","o","l","t">>,
    <<"U+27A1","U+FE0F"," ","x"," ","U+2014"," ","U","b","e","r">>,
    <<"U+27A1","U+FE0F"," ","<","a"," ","h","r","e","f","=","\"","v","\"",
      ">","c","r","a","s","h","<","/","a",">"," ","U+2014"," ","S"," ",
      "U+2014"," ","L","y","f","t">>,
    <<"U+2013","U+2013","U+2013","U+2013">>,
    <<"U+27A1","U+FE0F"," ","y">> }

RenderedTexts == {JoinLines(ls) : ls \in SeqsUpTo(LinePool, MaxLines)}

InitSan ==
  /\ pc = "rendered"
  /\ raw = <<>>
  /\ InitArt
  /\ brief \in RenderedTexts
  /\ before = <<>>
  /\ arg = 0

\* brief = dedupe_output_bullets(brief)
DedupeOnce ==
  /\ pc = "rendered"
  /\ before' = brief
  /\ arg' = 0
  /\ brief' = dedupe_output_bullets(brief)
  /\ pc' = "deduped"
  /\ UNCHANGED artVars

\* brief = enforce_output_company_cap(brief, cap)
CapOnce ==
  /\ pc = "rendered"
  /\ \E cap \in 1..MaxCap :
       /\ arg' = cap
       /\ brief' = enforce_output_company_cap(brief, cap)
  /\ before' = brief
  /\ pc' = "capped"
  /\ UNCHANGED artVars

\* brief = truncate_to_one_message(brief, hard_limit)
TruncateOnce ==
  /\ pc = "rendered"
  /\ \E hard_limit \in HardLimits :
       /\ arg' = hard_limit
       /\ brief' = truncate_to_one_message(brief, hard_limit)
  /\ before' = brief
  /\ pc' = "truncated"
  /\ UNCHANGED artVars

NextSan ==
  \/ DedupeOnce
  \/ CapOnce
  \/ TruncateOnce

SpecSan == InitSan /\ [][NextSan]_vars

-----------------------------------------------------------------------------
(* The output safeties as main chains them on the summarizer's text *)

\* the most bullets of a text of the summarizer
MaxBullets == 16

\* the length of the headline of a long bullet
LongHead == 240

\* main: the cap handed to enforce_output_company_cap
OUTPUT_CAP == 7

Rep(c, n) == [i \in 1..n |-> c]

TitleLine == <<"<","b",">","U+1F4CC"," ","B","r","i","e","f","<","/","b",">">>

TopLine == TopHeader \o <<" ","1","5","<","/","b",">">>

TrendLine == TrendHeader \o <<" ","T","a","k","e","a","w","a","y","<","/","b",">">>

TrendSentence == <<"U","b","e","r"," ","a","n","d"," ","B","o","l","t"," ","g","r","o","w",".">>

\* What a text of the summarizer departs from the prompt in: nothing; one
\* link in every bullet; one company in every label; an unknown company in
\* every label; an incident word in every headline; headlines of LongHead
\* characters; headlines that long between a study word and a commercial
\* word
Schemes ==
  {"asked", "one_url", "one_company", "unknown", "incident", "long",
   "study_long"}

\* bullet k of a text, with "- " before the glyph when dash
BulletLine(k, dash, scheme) ==
  LET url == IF scheme = "one_url" THEN <<"a">> ELSE << LowerCase[k] >>
      head == CASE scheme = "incident" -> <<"c","r","a","s","h">>
                [] scheme = "long" -> Rep("x", LongHead)
                [] scheme = "study_long" ->
                     <<"s","t","u","d","y"," ">> \o Rep("x", LongHead)
                       \o <<" ","l","a","u","n","c","h">>
                [] OTHER -> <<"h">>
      label == CASE scheme = "one_company" -> Uber
                 [] scheme = "unknown" -> <<"L","y","f","t">>
                 [] OTHER -> <<Uber, Bolt, Grab>>[((k - 1) % 3) + 1]
  IN  (IF dash THEN DashArrow \o <<" ">> ELSE ArrowSpace)
        \o AnchorOpen \o url \o <<"\"", ">">> \o head \o AnchorClose
        \o DashSep \o <<"S">> \o DashSep \o label

\* the text the prompt of chatgpt_brief asks for, with n bullets
Rendered(n, dash, scheme) ==
  JoinLines(<<TitleLine, Separator, TopLine>>
              \o [k \in 1..n |-> BulletLine(k, dash, scheme)]
              \o <<Separator, TrendLine, TrendSentence>>) \o <<"\n">>

SummarizerTexts ==
  {Rendered(n, dash, scheme) :
     n \in 0..MaxBullets, dash \in BOOLEAN, scheme \in Schemes}

\* brief = chatgpt_brief(cov_end_disp, articles)
InitMain ==
  /\ pc = "brief"
  /\ raw = <<>>
  /\ InitArt
  /\ brief \in SummarizerTexts
  /\ before = <<>>
  /\ arg = 0

\* brief = fix_bullet_prefixes(brief)
FixPrefixes ==
  /\ pc = "brief"
  /\ before' = brief
  /\ arg' = 0
  /\ brief' = fix_bullet_prefixes(brief)
  /\ pc' = "prefixed"
  /\ UNCHANGED artVars

\* brief = dedupe_output_bullets(brief)
DedupeBullets ==
  /\ pc = "prefixed"
  /\ before' = brief
  /\ arg' = 0
  /\ brief' = dedupe_output_bullets(brief)
  /\ pc' = "deduplicated"
  /\ UNCHANGED artVars

\* brief = enforce_output_company_cap(brief, 7)
EnforceCap ==
  /\ pc = "deduplicated"
  /\ before' = brief
  /\ arg' = OUTPUT_CAP
  /\ brief' = enforce_output_company_cap(brief, OUTPUT_CAP)
  /\ pc' = "company_capped"
  /\ UNCHANGED artVars

\* brief = filter_out_incident_and_study_bullets(brief)
Refilter ==
  /\ pc = "company_capped"
  /\ before' = brief
  /\ arg' = 0
  /\ brief' = filter_out_incident_and_study_bullets(brief)
  /\ pc' = "refiltered"
  /\ UNCHANGED artVars

\* brief = truncate_to_one_message(brief.strip()), then tg_send_text_single
TruncateAndSend ==
  /\ pc = "refiltered"
  /\ before' = brief
  /\ arg' = HARD_LIMIT
  /\ brief' = truncate_to_one_message(Strip(brief), HARD_LIMIT)
  /\ pc' = "sent"
  /\ UNCHANGED artVars

NextMain ==
  \/ FixPrefixes
  \/ DedupeBullets
  \/ EnforceCap
  \/ Refilter
  \/ TruncateAndSend

SpecMain == InitMain /\ [][NextMain]_vars

-----------------------------------------------------------------------------
(* Properties of the curation pipeline *)

\* s is t with some elements left out, the rest in the order of t
RECURSIVE IsSubsequence(_, _)
IsSubsequence(s, t) ==
  IF s = <<>> THEN TRUE
  ELSE IF t = <<>> THEN FALSE
  ELSE IF Head(s) = Head(t) THEN IsSubsequence(Tail(s), Tail(t))
  ELSE IsSubsequence(s, Tail(t))

\* the number of articles of the list as whose companies include c
TaggingCount(as, c) ==
  Cardinality({n \in DOMAIN as : InSeq(as[n].companies, c)})

\* C2: what limit_per_company returns is its input with articles left out,
\* in the input's order, and for every tracked company at most max_per of
\* its articles are tagged with the company.
C2_CapInvariant ==
  pc = "done" =>
    /\ IsSubsequence(selected, filtered)
    /\ \A c \in CompanySet : TaggingCount(selected, c) <= max_per

\* C2, its case: a company tags more articles of the input than the cap, and
\* the cap is reached
C2_Witness ==
  /\ pc = "done"
  /\ \E c \in CompanySet :
       /\ TaggingCount(filtered, c) > max_per
       /\ TaggingCount(selected, c) = max_per

\* C3: no two articles that merge_dedupe_with_similarity returns have the
\* same canonicalized url (query string removed, trailing slashes stripped),
\* whatever their titles.
C3_NoTwoWithOneUrl ==
  pc \in {"cap", "done"} =>
    \A m, n \in DOMAIN kept :
      m # n => CanonUrl(kept[m].url) # CanonUrl(kept[n].url)

\* The duplicate test of the deduplicator as the specification words it: the
\* similarity of the normalized titles reaches the threshold that applies,
\* the same-domain one for one domain and the cross-domain one for two
DuplicateTest(x, y) ==
  LET threshold == IF domain_of(x.url) = domain_of(y.url) THEN 75 ELSE 85
  IN  similar(norm_title(x.title), norm_title(y.title), threshold)

\* the two articles satisfy the duplicate test against each other
MutualDuplicates(x, y) == DuplicateTest(x, y) /\ DuplicateTest(y, x)

\* C7 as claimed: when an article of an original outlet and an article of an
\* aggregator domain in the input satisfy the duplicate test against each
\* other, the aggregator's article is not in the output.
C7_AggregatorNeverKept ==
  pc \in {"cap", "done"} =>
    \A i, j \in DOMAIN ordered :
      ( /\ NotAggregator(ordered[i])
        /\ IsAggregator(ordered[j])
        /\ MutualDuplicates(ordered[i], ordered[j]) )
      => ~InSeq(kept, ordered[j])

\* C7 as amended: when an article of an original outlet that is itself in
\* the output and an article of an aggregator domain in the input satisfy
\* the duplicate test against each other, the aggregator's article is not in
\* the output.
C7_AggregatorYieldsToKept ==
  pc \in {"cap", "done"} =>
    \A i, j \in DOMAIN ordered :
      ( /\ NotAggregator(ordered[i])
        /\ InSeq(kept, ordered[i])
        /\ IsAggregator(ordered[j])
        /\ MutualDuplicates(ordered[i], ordered[j]) )
      => ~InSeq(kept, ordered[j])

\* C7, its case: a kept original and an aggregator's repost of it have been
\* through the deduplicator
C7_Witness ==
  /\ pc = "cap"
  /\ \E i, j \in DOMAIN ordered :
       /\ NotAggregator(ordered[i])
       /\ InSeq(kept, ordered[i])
       /\ IsAggregator(ordered[j])
       /\ MutualDuplicates(ordered[i], ordered[j])

\* the term occurs in the text
Present(text, term) ==
  \E i \in 1..Len(text) :
    i + Len(term) - 1 <= Len(text) /\ SubSeq(text, i, i + Len(term) - 1) = term

\* some term of the list occurs in the lowercase title+description+url text
AnyPresent(a, terms) == \E n \in DOMAIN terms : Present(text_of(a), terms[n])

\* C8: is_business_relevant is False whenever an incident term is present,
\* False whenever a study/report term is present and no commercial term is,
\* and True in every other case.
C8_HardGate ==
  pc \notin {"fetch", "filter"} =>
    \A n \in DOMAIN arts :
      LET incident == AnyPresent(arts[n], INCIDENT_BLACKLIST)
          study == AnyPresent(arts[n], STUDY_REPORT_TERMS)
          commercial == AnyPresent(arts[n], COMMERCIAL_WHITELIST)
      IN  /\ incident => relevant[n] = FALSE
          /\ (study /\ ~commercial) => relevant[n] = FALSE
          /\ (~incident /\ ~(study /\ ~commercial)) => relevant[n] = TRUE

\* C8, its cases: an incident article that mentions a company and a
\* commercial term, a study rescued by a commercial term, and a bare study
C8_Witness ==
  /\ pc = "merge"
  /\ \E n \in DOMAIN arts :
       /\ AnyPresent(arts[n], INCIDENT_BLACKLIST)
       /\ AnyPresent(arts[n], COMMERCIAL_WHITELIST)
       /\ tag_companies(arts[n]) # <<>>
       /\ ~relevant[n]
  /\ \E n \in DOMAIN arts :
       /\ AnyPresent(arts[n], STUDY_REPORT_TERMS)
       /\ AnyPresent(arts[n], COMMERCIAL_WHITELIST)
       /\ relevant[n]
  /\ \E n \in DOMAIN arts :
       /\ AnyPresent(arts[n], STUDY_REPORT_TERMS)
       /\ ~AnyPresent(arts[n], COMMERCIAL_WHITELIST)
       /\ ~relevant[n]

\* C9: in the scan of limit_per_company an article is admitted exactly when
\* it has a tag and none of its tagged companies has a counter at max_per or
\* above at that moment; a dropped article leaves every counter as it was,
\* and an admitted one raises the counter of each of its tagged companies by
\* exactly one and no other counter.
C9_AdmissionStep ==
  [][ (pc = "cap" /\ idx' = idx + 1) =>
        LET a == filtered[idx + 1]
            tags == a.companies
            admit == /\ tags # <<>>
                     /\ \A n \in DOMAIN tags : counts[tags[n]] < max_per
        IN  /\ admit => /\ selected' = Append(selected, a)
                        /\ \A c \in CompanySet :
                             counts'[c] =
                               counts[c] + (IF InSeq(tags, c) THEN 1 ELSE 0)
            /\ ~admit => /\ selected' = selected
                         /\ counts' = counts ]_vars

\* C9, its case: an article with two tags has just been dropped with one of
\* its companies at the cap and the other below it
C9_Witness ==
  /\ pc = "cap"
  /\ idx > 0
  /\ LET tags == filtered[idx].companies
     IN  /\ Len(tags) >= 2
         /\ ~InSeq(selected, filtered[idx])
         /\ \E n \in DOMAIN tags : counts[tags[n]] >= max_per
         /\ \E n \in DOMAIN tags : counts[tags[n]] < max_per

-----------------------------------------------------------------------------
(* Properties of the output safeties, each on its own *)

\* the line is a bullet line: stripped, it starts with the bullet glyph
IsBullet(ln) == StartsWith(Strip(ln), Arrow)

NotBullet(ln) == ~IsBullet(ln)

\* the embedded link target of a bullet line, as a list: the first match of
\* ANCHOR_RE; empty for a line that is no bullet or has no anchor
LinkTarget(ln) == IF IsBullet(ln) THEN AnchorSearch(Strip(ln)) ELSE <<>>

\* the lines inside the Top block: after the header, before what ends it
TopBlock(lines) ==
  IF TopIdx(lines) = 0 THEN <<>>
  ELSE SubSeq(lines, TopIdx(lines) + 1, EndIdx(lines, TopIdx(lines)) - 1)

\* the " - "-separated fields of a line, the dash being an em dash
Fields(ln) == Split(Strip(ln), DashSep)

\* the bullet has no source field and label field of its own
FewFields(ln) == IsBullet(ln) /\ Len(Fields(ln)) < 3

\* the names of the text after the last separator, split on "/", of a bullet
\* with at least min fields; none for every other line
LabelNames(ln, min) ==
  LET f == Fields(ln)
      comps == CompsOf(f[Len(f)])
  IN  IF IsBullet(ln) /\ Len(f) >= min
      THEN {comps[n] : n \in DOMAIN comps} ELSE {}

\* the number of bullets of the block whose label names c, counting the
\* bullets with at least min fields
LabelCount(block, c, min) ==
  Cardinality({n \in DOMAIN block : c \in LabelNames(block[n], min)})

\* no tracked company is named by the labels of more than cap bullets of the
\* block, counting the bullets with at least min fields
WithinCap(block, cap, min) ==
  \A n \in DOMAIN block :
    \A c \in LabelNames(block[n], min) \cap CompanySet :
      LabelCount(block, c, min) <= cap

\* C1: what truncate_to_one_message returns is no longer than hard_limit.
C1_WithinHardLimit ==
  pc = "truncated" => Len(brief) <= arg

\* C4: after enforce_output_company_cap(text, K), for every tracked company
\* at most K bullet lines inside the Top block have a trailing label (the
\* text after the last separator, split on "/") that names the company.
C4_LabelCap ==
  pc = "capped" =>
    WithinCap(TopBlock(SplitLines(brief)), arg, 2)

\* C4, as the code has it: after enforce_output_company_cap(text, K), for
\* every tracked company at most K of the bullet lines inside the Top block
\* that have at least three fields (headline, source, label) have a trailing
\* label that names the company.
C4_LabelCapOfWellFormed ==
  pc = "capped" => WithinCap(TopBlock(SplitLines(brief)), arg, 3)

\* C4, its case: the Top block of the input has more than K bullets of three
\* fields that name a company, and K of them are left
C4_Witness ==
  /\ pc = "capped"
  /\ \E c \in CompanySet :
       /\ LabelCount(TopBlock(SplitLines(before)), c, 3) > arg
       /\ LabelCount(TopBlock(SplitLines(brief)), c, 3) = arg

\* C5: after enforce_output_company_cap, every bullet line that remains
\* inside the Top block has a trailing label that names at least one known
\* company; a bullet with no label, or malformed, or labelled with unknown
\* names only, is not kept.
C5_EveryBulletLabelled ==
  pc = "capped" =>
    LET block == TopBlock(SplitLines(brief))
    IN  \A n \in DOMAIN block :
          IsBullet(block[n]) => LabelNames(block[n], 2) \cap CompanySet # {}

\* C5, as the code has it: after enforce_output_company_cap, every bullet
\* line that remains inside the Top block either has fewer than three fields
\* or has a trailing label that names at least one known company, and every
\* bullet of fewer than three fields of the input's Top block is kept.
C5_LabelledOrMalformed ==
  pc = "capped" =>
    LET block == TopBlock(SplitLines(brief))
    IN  /\ \A n \in DOMAIN block :
             IsBullet(block[n]) =>
               \/ Len(Fields(block[n])) < 3
               \/ LabelNames(block[n], 3) \cap CompanySet # {}
        /\ SelectSeq(block, FewFields)
             = SelectSeq(TopBlock(SplitLines(before)), FewFields)

\* C5, its case: the Top block of the input has a bullet of three fields
\* labelled with unknown names only, which is dropped, and a bullet of fewer
\* than three fields, which is kept
C5_Witness ==
  /\ pc = "capped"
  /\ LET src == TopBlock(SplitLines(before))
         block == TopBlock(SplitLines(brief))
     IN  /\ \E n \in DOMAIN src :
               /\ IsBullet(src[n])
               /\ Len(Fields(src[n])) >= 3
               /\ LabelNames(src[n], 3) \cap CompanySet = {}
               /\ ~InSeq(block, src[n])
         /\ \E n \in DOMAIN block : FewFields(block[n])

\* C10: after dedupe_output_bullets no two bullet lines carry the same link
\* target, the bullet kept for a link target is the first of the input that
\* carries it, and the lines that are no bullets are all kept, unchanged and
\* in their order.
C10_DedupeKeepsFirst ==
  pc = "deduped" =>
    LET src == SplitLines(before)
        res == SplitLines(brief)
        ts == [n \in DOMAIN src |-> LinkTarget(src[n])]
        tr == [n \in DOMAIN res |-> LinkTarget(res[n])]
        FirstOf(t) == Min({n \in DOMAIN src : ts[n] = t})
    IN  /\ \A m, n \in DOMAIN res :
             m < n /\ tr[m] # <<>> => tr[m] # tr[n]
        /\ \A k \in DOMAIN src :
             ts[k] # <<>> =>
               \E n \in DOMAIN res :
                 tr[n] = ts[k] /\ res[n] = src[FirstOf(ts[k])]
        /\ SelectSeq(res, NotBullet) = SelectSeq(src, NotBullet)
        /\ IsSubsequence(res, src)

\* C10, its case: two different bullets of the input carry one link target,
\* as does a line that is no bullet; the later bullet is dropped, the other
\* two lines are kept
C10_Witness ==
  /\ pc = "deduped"
  /\ LET src == SplitLines(before)
         res == SplitLines(brief)
     IN  \E m, n, k \in DOMAIN src :
           /\ m < n
           /\ src[m] # src[n]
           /\ LinkTarget(src[m]) # <<>>
           /\ LinkTarget(src[m]) = LinkTarget(src[n])
           /\ InSeq(res, src[m])
           /\ ~InSeq(res, src[n])
           /\ NotBullet(src[k])
           /\ AnchorSearch(Strip(src[k])) = LinkTarget(src[m])
           /\ InSeq(res, src[k])

-----------------------------------------------------------------------------
(* Properties of the chain of main *)

\* the most entries the list of the brief is to have
TOP_N == 15

\* the number of bullet lines of a text
BulletCount(text) ==
  LET lines == SplitLines(text)
  IN  Cardinality({n \in DOMAIN lines : IsBullet(lines[n])})

\* C6: the text main sends, made of the summarizer's text by the five output
\* safeties in main's order, has at most 15 bullet lines.
C6_AtMostFifteenBullets ==
  pc = "sent" => BulletCount(brief) <= TOP_N

\* the line, read as the re-filter reads it, has an incident term
HasIncident(ln) ==
  LET s == Lower(Strip(ln))
  IN  has_any(s, INCIDENT_BLACKLIST)

\* the line has a study/report term
HasStudy(ln) ==
  LET s == Lower(Strip(ln))
  IN  has_any(s, STUDY_REPORT_TERMS)

\* the line has a study/report term and no commercial term with it
BareStudy(ln) ==
  LET s == Lower(Strip(ln))
  IN  has_any(s, STUDY_REPORT_TERMS) /\ ~has_any(s, COMMERCIAL_WHITELIST)

\* The line of the text sent is a bullet that shrinking cut: it is no line of
\* src, the lines handed to truncate_to_one_message, which changes bullets
\* only (shrink_line returns a cut bullet from its anchor on, without the
\* glyph)
CutBullet(src, ln) == ~InSeq(src, ln)

\* C11: in the text main sends, after the truncation that follows the
\* re-filter, no bullet, whether shrinking cut its headline or not, contains
\* an incident term, and none contains a study/report term without a
\* commercial term.
C11_RefilterSurvivesTruncation ==
  pc = "sent" =>
    LET res == SplitLines(brief)
        src == SplitLines(Strip(before))
    IN  \A n \in DOMAIN res :
          LET ln == res[n]
          IN  IsBullet(ln) \/ CutBullet(src, ln) =>
                ~HasIncident(ln) /\ ~BareStudy(ln)

\* C11, as the code has it: in the text main sends no bullet, cut or not,
\* contains an incident term, and no bullet that shrinking left as it was
\* contains a study/report term without a commercial term; a bullet whose
\* headline was cut may have lost its commercial term.
C11_RefilterSurvivesUncut ==
  pc = "sent" =>
    LET res == SplitLines(brief)
        src == SplitLines(Strip(before))
    IN  \A n \in DOMAIN res :
          LET ln == res[n]
              cut == CutBullet(src, ln)
          IN  /\ IsBullet(ln) \/ cut => ~HasIncident(ln)
              /\ IsBullet(ln) /\ ~cut => ~BareStudy(ln)

\* C11, its case: the text sent has a bullet that shrinking cut, with a
\* study/report term in what is left of it
C11_Witness ==
  /\ pc = "sent"
  /\ LET res == SplitLines(brief)
         src == SplitLines(Strip(before))
     IN  \E n \in DOMAIN res : CutBullet(src, res[n]) /\ HasStudy(res[n])

=============================================================================
